---- MODULE Spec2Model ----
(***************************************************************************)
(* Lesotho Healthcare Cost Prediction API (src/API/prediction.py).         *)
(*                                                                         *)
(* The module-level artifact load, the request validation declared by      *)
(* PredictionInput and the four route handlers (/, /health, /predict,      *)
(* /model-info) as a state machine.                                        *)
(*                                                                         *)
(* src/main.py holds two unmerged revisions of the same routes (conflict   *)
(* markers included) that import predict_cost from a prediction module the *)
(* repository does not contain; the self-contained application in          *)
(* src/API/prediction.py is the program modelled here.                     *)
(*                                                                         *)
(* Numbers: money is held in fixed point.  A raw prediction is an integer  *)
(* number of thousandths of a Loti (Milli = 1 LSL), the cost placed in the *)
(* response is an integer number of hundredths (round(prediction, 2)).     *)
(* Python's None is the empty tuple, a bound value x is the tuple <<x>>.   *)
(***************************************************************************)
EXTENDS Integers, Sequences, FiniteSets, TLC

VARIABLES pc,             \* position of the module-level code / "serving"
          model,          \* module global model
          scaler,         \* module global scaler
          feature_names,  \* module global feature_names
          model_type,     \* module global model_type
          endpoint,       \* route of the request served last
          body,           \* JSON body of the request served last
          resp,           \* response given to it
          estimated,      \* whether the handler's try block was entered
          input_encoded,  \* local of /predict after pd.get_dummies
          input_aligned,  \* local of /predict after reindex
          raw_prediction  \* local of /predict: model.predict(...)[0], before the floor

vars == <<pc, model, scaler, feature_names, model_type, endpoint, body, resp,
          estimated, input_encoded, input_aligned, raw_prediction>>

artifact == <<model, scaler, feature_names, model_type>>

-----------------------------------------------------------------------------
(* Bounds of the model.                                                    *)

\* Numeric inputs are sampled up to Slack away from each declared limit.
Slack == 1

-----------------------------------------------------------------------------
(* Python values.                                                          *)

None == <<>>

Some(x) == <<x>>

Val(o) == o[1]

Range(s) == {s[i] : i \in 1..Len(s)}

Max(a, b) == IF b > a THEN b ELSE a

-----------------------------------------------------------------------------
(* PredictionInput: the declared constraints.                              *)

AgeMin == 18

AgeMax == 100

HouseholdMin == 1

HouseholdMax == 15

IncomeMin == 5000

IncomeMax == 200000

Fields ==
    <<"age", "sex", "region", "is_insured", "employment", "household_size",
      "primary_healthcare_access", "annual_income", "healthcare_type">>

FieldSet == Range(Fields)

\* The Literal[...] enumerations, as declared.
Literals ==
    [sex |-> <<"male", "female">>,
     region |-> <<"Quthing", "Thaba-Tseka", "Butha-Buthe", "Mafeteng",
                  "Mohale's Hoek", "Qacha's Nek", "Leribe", "Maseru">>,
     employment |-> <<"employed", "unemployed", "self-employed">>,
     primary_healthcare_access |-> <<"easy", "moderate", "difficult">>,
     healthcare_type |-> <<"public", "private">>]

\* A JSON value of a request body: a number, a string, or the key missing.
JNum(n) == [t |-> "num", n |-> n, s |-> ""]

JStr(s) == [t |-> "str", n |-> 0, s |-> s]

JAbsent == [t |-> "absent", n |-> 0, s |-> ""]

\* Config.schema_extra["example"]
ExampleBody ==
    [age |-> JNum(45), sex |-> JStr("male"), region |-> JStr("Maseru"),
     is_insured |-> JNum(1), employment |-> JStr("employed"),
     household_size |-> JNum(4), primary_healthcare_access |-> JStr("easy"),
     annual_income |-> JNum(50000), healthcare_type |-> JStr("private")]

InRange(v, lo, hi) == v.t = "num" /\ lo <= v.n /\ v.n <= hi

InLiteral(v, f) == v.t = "str" /\ v.s \in Range(Literals[f])

\* Mutant of FieldOk: the lower age limit written one too low.
FieldOkAgeFrom17(f, v) ==
    CASE f = "age" -> InRange(v, AgeMin - 1, AgeMax)
      [] f = "household_size" -> InRange(v, HouseholdMin, HouseholdMax)
      [] f = "annual_income" -> InRange(v, IncomeMin, IncomeMax)
      [] f = "is_insured" -> v.t = "num" /\ v.n \in {0, 1}
      [] OTHER -> InLiteral(v, f)

\* One field of PredictionInput against its Field(..., ge=, le=) / Literal.
FieldOk(f, v) ==
    CASE f = "age" -> InRange(v, AgeMin, AgeMax)
      [] f = "household_size" -> InRange(v, HouseholdMin, HouseholdMax)
      [] f = "annual_income" -> InRange(v, IncomeMin, IncomeMax)
      [] f = "is_insured" -> v.t = "num" /\ v.n \in {0, 1}
      [] OTHER -> InLiteral(v, f)

\* Mutant of ValidationErrors: the fields declared optional, so that a
\* missing key is no error.
ValidationErrorsOptional(b) ==
    {f \in FieldSet : b[f].t # "absent" /\ ~FieldOk(f, b[f])}

\* The fields a body fails on: one error entry per offending field.
ValidationErrors(b) == {f \in FieldSet : ~FieldOk(f, b[f])}

\* input_data.dict(): the validated, typed record.
Dict(b) ==
    [f \in FieldSet |->
        IF f \in {"age", "household_size", "annual_income", "is_insured"}
        THEN b[f].n ELSE b[f].s]

-----------------------------------------------------------------------------
(* pandas: the two DataFrame operations the handler uses.  A frame is its  *)
(* column labels and its rows, each row aligned with the labels.           *)

\* Thousandths of a Loti in one Loti.
Milli == 10 * 10 * 10

ColIndex(df, c) == CHOOSE j \in 1..Len(df.columns) : df.columns[j] = c

\* pd.DataFrame([input_dict]): one row, columns in field order.
DataFrame(d) ==
    [columns |-> Fields, data |-> <<[j \in 1..Len(Fields) |-> d[Fields[j]]]>>]

\* Each enumeration in sorted order: get_dummies orders the levels it finds.
SortedLevels ==
    [sex |-> <<"female", "male">>,
     region |-> <<"Butha-Buthe", "Leribe", "Mafeteng", "Maseru",
                  "Mohale's Hoek", "Qacha's Nek", "Quthing", "Thaba-Tseka">>,
     employment |-> <<"employed", "self-employed", "unemployed">>,
     primary_healthcare_access |-> <<"difficult", "easy", "moderate">>,
     healthcare_type |-> <<"private", "public">>]

\* The levels of column f that occur in the frame's rows, sorted.
Levels(df, f) ==
    SelectSeq(SortedLevels[f],
              LAMBDA v : \E i \in 1..Len(df.data) : df.data[i][ColIndex(df, f)] = v)

\* The (field, level) pairs that get an indicator column, in output order.
RECURSIVE DummyPairs(_, _, _)
DummyPairs(df, columns, drop_first) ==
    IF columns = <<>> THEN <<>>
    ELSE LET f == Head(columns)
             lv == Levels(df, f)
             kept == IF drop_first /\ lv # <<>> THEN Tail(lv) ELSE lv
         IN  [j \in 1..Len(kept) |-> <<f, kept[j]>>]
                 \o DummyPairs(df, Tail(columns), drop_first)

\* pd.get_dummies(df, columns=columns, drop_first=drop_first)
GetDummies(df, columns, drop_first) ==
    LET keep == SelectSeq(df.columns, LAMBDA c : c \notin Range(columns))
        pairs == DummyPairs(df, columns, drop_first)
        names == [j \in 1..Len(pairs) |-> pairs[j][1] \o "_" \o pairs[j][2]]
        Row(r) == [j \in 1..Len(keep) |-> r[ColIndex(df, keep[j])]]
                    \o [j \in 1..Len(pairs) |->
                          IF r[ColIndex(df, pairs[j][1])] = pairs[j][2]
                          THEN 1 ELSE 0]
    IN  [columns |-> keep \o names,
         data |-> [i \in 1..Len(df.data) |-> Row(df.data[i])]]

\* Mutant of Reindex: selects the expected columns the frame has and adds none.
ReindexIntersect(df, columns, fill_value) ==
    LET have == SelectSeq(columns, LAMBDA c : c \in Range(df.columns))
    IN  [columns |-> have,
         data |-> [i \in 1..Len(df.data) |->
                     [j \in 1..Len(have) |-> df.data[i][ColIndex(df, have[j])]]]]

\* df.reindex(columns=columns, fill_value=fill_value)
Reindex(df, columns, fill_value) ==
    [columns |-> columns,
     data |-> [i \in 1..Len(df.data) |->
                 [j \in 1..Len(columns) |->
                    IF columns[j] \in Range(df.columns)
                    THEN df.data[i][ColIndex(df, columns[j])]
                    ELSE fill_value]]]

categorical_columns ==
    <<"sex", "region", "employment", "primary_healthcare_access",
      "healthcare_type">>

-----------------------------------------------------------------------------
(* The artifact files joblib.load may find on disk.                        *)

\* feature_names.pkl written by a training run that encoded all levels with
\* get_dummies(drop_first=True).
TrainingFeatures ==
    <<"age", "is_insured", "household_size", "annual_income", "sex_male",
      "region_Leribe", "region_Mafeteng", "region_Maseru",
      "region_Mohale's Hoek", "region_Qacha's Nek", "region_Quthing",
      "region_Thaba-Tseka", "employment_self-employed",
      "employment_unemployed", "primary_healthcare_access_easy",
      "primary_healthcare_access_moderate", "healthcare_type_public">>

\* feature_names.pkl of a model trained on a selection of the columns.
SelectedFeatures == <<"annual_income", "healthcare_type_public", "age">>

FeatureFiles == {TrainingFeatures, SelectedFeatures, <<>>}

StandardScaler(mean, scale) ==
    [kind |-> "StandardScaler", mean |-> mean, scale |-> scale]

NumericMean(c) ==
    CASE c = "age" -> 45
      [] c = "household_size" -> 4
      [] c = "annual_income" -> 50000
      [] OTHER -> 0

NumericScale(c) ==
    CASE c = "age" -> 20
      [] c = "household_size" -> 2
      [] c = "annual_income" -> 25000
      [] OTHER -> 1

ScalerFor(cols) ==
    StandardScaler([j \in 1..Len(cols) |-> NumericMean(cols[j])],
                   [j \in 1..Len(cols) |-> NumericScale(cols[j])])

ScalerFiles == {ScalerFor(TrainingFeatures), ScalerFor(SelectedFeatures)}

LinearRegression(coef, intercept) ==
    [kind |-> "LinearRegression", coef |-> coef, intercept |-> intercept]

\* Coefficients in thousandths of a Loti per unit of the scaled feature.
Coef(c) ==
    CASE c = "age" -> 212345
      [] c = "is_insured" -> -103000
      [] c = "household_size" -> -50500
      [] c = "annual_income" -> 300123
      [] c = "sex_male" -> 50000
      [] c = "region_Maseru" -> 160000
      [] c = "region_Thaba-Tseka" -> -150000
      [] c = "healthcare_type_public" -> -250000
      [] c = "employment_unemployed" -> -200000
      [] c = "primary_healthcare_access_easy" -> 120000
      [] OTHER -> 10000

ModelFiles ==
    {LinearRegression([j \in 1..Len(TrainingFeatures) |-> Coef(TrainingFeatures[j])],
                      3500000),
     LinearRegression(<<-300000, 0, 1337>>, 99000),
     LinearRegression(<<40, 0, 7>>, 100002),
     \* a pickle that is no estimator
     [kind |-> "dict", coef |-> <<>>, intercept |-> 0]}

\* scaler.transform(X): None, or the exception it raises.
TransformFault(sc, X) ==
    IF Len(sc.mean) # Len(X.columns) \/ Len(X.columns) = 0
    THEN "ValueError" ELSE "none"

\* scaler.transform(X): (x - mean_) / scale_, per column.
Transform(sc, X) ==
    [columns |-> X.columns,
     data |-> [i \in 1..Len(X.data) |->
                 [j \in 1..Len(X.columns) |->
                    ((X.data[i][j] - sc.mean[j]) * Milli) \div sc.scale[j]]]]

\* model.predict(X): None, or the exception it raises.
PredictFault(m, X) ==
    IF m.kind # "LinearRegression" THEN "AttributeError"
    ELSE IF Len(m.coef) # Len(X.columns) \/ Len(X.columns) = 0
         THEN "ValueError" ELSE "none"

RECURSIVE Dot(_, _)
Dot(coef, row) ==
    IF coef = <<>> THEN 0
    ELSE (Head(coef) * Head(row)) \div Milli + Dot(Tail(coef), Tail(row))

\* model.predict(X)[0], X in thousandths.
Predict(m, X) == m.intercept + Dot(m.coef, X.data[1])

\* The unscaled frame as the model sees it in the branch without a scaler.
Unscaled(X) ==
    [columns |-> X.columns,
     data |-> [i \in 1..Len(X.data) |->
                 [j \in 1..Len(X.columns) |-> X.data[i][j] * Milli]]]

-----------------------------------------------------------------------------
(* The request bodies a client may send.                                   *)

Around(lo, hi) == ((lo - Slack)..(lo + Slack)) \cup ((hi - Slack)..(hi + Slack))

Samples(f) ==
    {JAbsent} \cup
    CASE f = "age" -> {JStr("abc")} \cup {JNum(n) : n \in Around(AgeMin, AgeMax)}
      [] f = "household_size" ->
            {JStr("abc")} \cup {JNum(n) : n \in Around(HouseholdMin, HouseholdMax)}
      [] f = "annual_income" ->
            {JStr("abc")} \cup {JNum(n) : n \in Around(IncomeMin, IncomeMax)}
      [] f = "is_insured" -> {JStr("yes")} \cup {JNum(n) : n \in (0 - Slack)..(1 + Slack)}
      [] OTHER -> {JNum(1), JStr("other")} \cup {JStr(v) : v \in Range(Literals[f])}

\* A second conforming body that differs from the example in every field.
RuralBody ==
    [age |-> JNum(18), sex |-> JStr("female"), region |-> JStr("Thaba-Tseka"),
     is_insured |-> JNum(0), employment |-> JStr("unemployed"),
     household_size |-> JNum(15), primary_healthcare_access |-> JStr("difficult"),
     annual_income |-> JNum(5000), healthcare_type |-> JStr("public")]

\* A body that fails on several fields at once.
BrokenBody ==
    [ExampleBody EXCEPT !["age"] = JAbsent, !["region"] = JStr("other"),
                        !["annual_income"] = JStr("abc")]

\* The body b and every body that differs from it in one field.
OneOff(b) ==
    {b} \cup UNION {{[b EXCEPT ![f] = v] : v \in Samples(f)} : f \in FieldSet}

Bodies == OneOff(ExampleBody) \cup {RuralBody, BrokenBody}

\* A request without a body (the GET routes).
NoBody == [f \in FieldSet |-> JAbsent]

EmptyFrame == [columns |-> <<>>, data |-> <<>>]

-----------------------------------------------------------------------------
(* Module-level code: "Load trained model and preprocessing components".   *)

Init ==
    /\ pc = "load_model"
    /\ model = None
    /\ scaler = None
    /\ feature_names = None
    /\ model_type = None
    /\ endpoint = "none"
    /\ body = NoBody
    /\ resp = [status |-> 0]
    /\ estimated = FALSE
    /\ input_encoded = EmptyFrame
    /\ input_aligned = EmptyFrame
    /\ raw_prediction = 0

\* Mutant of LoadFailed: the handler resets the two later globals only.
LoadFailedKeepsModel ==
    /\ model' = model
    /\ scaler' = None
    /\ feature_names' = None
    /\ pc' = "serving"
    /\ UNCHANGED model_type

\* except Exception: model, scaler, feature_names = None, None, None
LoadFailed ==
    /\ model' = None
    /\ scaler' = None
    /\ feature_names' = None
    /\ pc' = "serving"
    /\ UNCHANGED model_type

\* model = joblib.load('best_model.pkl')
LoadModel ==
    /\ pc = "load_model"
    /\ \/ LoadFailed
       \/ \E m \in ModelFiles :
            /\ model' = Some(m)
            /\ pc' = "load_scaler"
            /\ UNCHANGED <<scaler, feature_names, model_type>>
    /\ UNCHANGED <<endpoint, body, resp, estimated, input_encoded,
                   input_aligned, raw_prediction>>

\* scaler = joblib.load('scaler.pkl')
LoadScaler ==
    /\ pc = "load_scaler"
    /\ \/ LoadFailed
       \/ \E sc \in ScalerFiles :
            /\ scaler' = Some(sc)
            /\ pc' = "load_features"
            /\ UNCHANGED <<model, feature_names, model_type>>
    /\ UNCHANGED <<endpoint, body, resp, estimated, input_encoded,
                   input_aligned, raw_prediction>>

\* feature_names = joblib.load('feature_names.pkl'); model_type = "Linear Regression"
LoadFeatureNames ==
    /\ pc = "load_features"
    /\ \/ LoadFailed
       \/ \E fn \in FeatureFiles :
            /\ feature_names' = Some(fn)
            /\ model_type' = Some("Linear Regression")
            /\ pc' = "serving"
            /\ UNCHANGED <<model, scaler>>
    /\ UNCHANGED <<endpoint, body, resp, estimated, input_encoded,
                   input_aligned, raw_prediction>>

-----------------------------------------------------------------------------
(* The route handlers.                                                     *)

\* What a handler leaves behind when it never enters /predict's try block.
NoEstimation ==
    /\ estimated' = FALSE
    /\ input_encoded' = EmptyFrame
    /\ input_aligned' = EmptyFrame
    /\ raw_prediction' = 0

\* Python truthiness of an optional list.
Truthy(o) == o # None /\ Val(o) # <<>>

\* @app.get("/")
Root ==
    /\ pc = "serving"
    /\ endpoint' = "/"
    /\ body' = NoBody
    /\ resp' = [status |-> 200,
                message |-> "Lesotho Healthcare Cost Prediction API",
                version |-> "1.0.0"]
    /\ NoEstimation
    /\ UNCHANGED <<pc, model, scaler, feature_names, model_type>>

\* Mutant of HealthCheck: model_status read off the feature list.
HealthCheckByFeatures ==
    /\ pc = "serving"
    /\ endpoint' = "/health"
    /\ body' = NoBody
    /\ resp' = [status |-> 200,
                health |-> "healthy",
                model_status |-> IF Truthy(feature_names)
                                 THEN "loaded" ELSE "not_loaded",
                features_loaded |-> IF Truthy(feature_names)
                                    THEN Len(Val(feature_names)) ELSE 0]
    /\ NoEstimation
    /\ UNCHANGED <<pc, model, scaler, feature_names, model_type>>

\* @app.get("/health")
HealthCheck ==
    /\ pc = "serving"
    /\ endpoint' = "/health"
    /\ body' = NoBody
    /\ resp' = [status |-> 200,
                health |-> "healthy",
                model_status |-> IF model # None THEN "loaded" ELSE "not_loaded",
                features_loaded |-> IF Truthy(feature_names)
                                    THEN Len(Val(feature_names)) ELSE 0]
    /\ NoEstimation
    /\ UNCHANGED <<pc, model, scaler, feature_names, model_type>>

\* Mutant of GetModelInfo: truncates the shared list in place
\* (del feature_names[10:]) instead of slicing a copy.
GetModelInfoTruncating ==
    /\ pc = "serving"
    /\ endpoint' = "/model-info"
    /\ body' = NoBody
    /\ resp' = IF model = None
               THEN [status |-> 500, detail |-> "Model not loaded"]
               ELSE [status |-> 200,
                     model_type |-> Val(model_type),
                     features_count |-> IF Truthy(feature_names)
                                        THEN Len(Val(feature_names)) ELSE 0,
                     feature_names |->
                         IF Truthy(feature_names)
                         THEN SubSeq(Val(feature_names), 1,
                                     IF Len(Val(feature_names)) < 10
                                     THEN Len(Val(feature_names)) ELSE 10)
                         ELSE <<>>]
    /\ feature_names' =
          IF model # None /\ Truthy(feature_names)
          THEN Some(SubSeq(Val(feature_names), 1,
                           IF Len(Val(feature_names)) < 10
                           THEN Len(Val(feature_names)) ELSE 10))
          ELSE feature_names
    /\ NoEstimation
    /\ UNCHANGED <<pc, model, scaler, model_type>>

\* @app.get("/model-info")
GetModelInfo ==
    /\ pc = "serving"
    /\ endpoint' = "/model-info"
    /\ body' = NoBody
    /\ resp' = IF model = None
               THEN [status |-> 500, detail |-> "Model not loaded"]
               ELSE [status |-> 200,
                     model_type |-> Val(model_type),
                     features_count |-> IF Truthy(feature_names)
                                        THEN Len(Val(feature_names)) ELSE 0,
                     feature_names |->
                         IF Truthy(feature_names)
                         THEN SubSeq(Val(feature_names), 1,
                                     IF Len(Val(feature_names)) < 10
                                     THEN Len(Val(feature_names)) ELSE 10)
                         ELSE <<>>]
    /\ NoEstimation
    /\ UNCHANGED <<pc, model, scaler, feature_names, model_type>>

\* "Minimum cost of 100 LSL"
MinCost == 100

\* Mutant of FloorCost: min where max is meant.
FloorCostMin(p) == IF p < MinCost * Milli THEN p ELSE MinCost * Milli

\* prediction = max(100.0, prediction)
FloorCost(p) == Max(MinCost * Milli, p)

\* round(prediction, 2): thousandths to hundredths, ties to the even neighbour.
Round2(m) ==
    LET q == m \div 10
        r == m % 10
    IN  IF r < 5 THEN q
        ELSE IF r > 5 THEN q + 1
        ELSE IF q % 2 = 0 THEN q ELSE q + 1

\* The framework's answer to a body PredictionInput does not accept.
Unprocessable(errs) ==
    [status |-> 422, detail |-> {[loc |-> <<"body", f>>] : f \in errs}]

ConfidenceInfo(d) ==
    "Prediction based on " \o Val(model_type) \o " trained on Lesotho healthcare data"
      \o (IF d["is_insured"] = 1
          THEN ". Insurance coverage may reduce actual out-of-pocket costs."
          ELSE "")

\* The body of predict_healthcare_cost, for a body that validated.
Handle(b) ==
    IF model = None \/ scaler = None \/ feature_names = None
    THEN /\ resp' = [status |-> 500,
                     detail |-> "Model not loaded. Please check server configuration."]
         /\ NoEstimation
    ELSE LET input_dict == Dict(b)
             input_df == DataFrame(input_dict)
             enc == GetDummies(input_df, categorical_columns, TRUE)
             al == Reindex(enc, Val(feature_names), 0)
             linear == Val(model_type) = "Linear Regression"
             tf == IF linear THEN TransformFault(Val(scaler), al) ELSE "none"
             X == IF linear THEN Transform(Val(scaler), al) ELSE Unscaled(al)
             fault == IF tf # "none" THEN tf ELSE PredictFault(Val(model), X)
             raw == Predict(Val(model), X)
         IN  /\ estimated' = TRUE
             /\ input_encoded' = enc
             /\ input_aligned' = al
             /\ IF fault # "none"
                THEN \* except Exception as e: HTTPException(status_code=400, ...)
                     /\ raw_prediction' = 0
                     /\ resp' = [status |-> 400, detail |-> "Prediction error",
                                 exc |-> fault]
                ELSE /\ raw_prediction' = raw
                     /\ resp' = [status |-> 200,
                                 predicted_healthcare_cost |-> Round2(FloorCost(raw)),
                                 model_used |-> Val(model_type),
                                 confidence_info |-> ConfidenceInfo(input_dict)]

\* @app.post("/predict", response_model=PredictionOutput)
PredictHealthcareCost ==
    /\ pc = "serving"
    /\ \E b \in Bodies :
         /\ endpoint' = "/predict"
         /\ body' = b
         /\ IF ValidationErrors(b) # {}
            THEN resp' = Unprocessable(ValidationErrors(b)) /\ NoEstimation
            ELSE Handle(b)
    /\ UNCHANGED <<pc, model, scaler, feature_names, model_type>>

Next ==
    \/ LoadModel
    \/ LoadScaler
    \/ LoadFeatureNames
    \/ Root
    \/ HealthCheck
    \/ PredictHealthcareCost
    \/ GetModelInfo

Spec == Init /\ [][Next]_vars

-----------------------------------------------------------------------------
(* Properties.                                                             *)

\* The declared constraints of the nine fields, written out.
DeclaredOk(b) ==
    /\ b["age"].t = "num" /\ 18 <= b["age"].n /\ b["age"].n <= 100
    /\ b["household_size"].t = "num"
    /\ 1 <= b["household_size"].n /\ b["household_size"].n <= 15
    /\ b["annual_income"].t = "num"
    /\ 5000 <= b["annual_income"].n /\ b["annual_income"].n <= 200000
    /\ b["is_insured"] \in {JNum(0), JNum(1)}
    /\ b["sex"] \in {JStr("male"), JStr("female")}
    /\ b["region"] \in {JStr("Quthing"), JStr("Thaba-Tseka"), JStr("Butha-Buthe"),
                        JStr("Mafeteng"), JStr("Mohale's Hoek"),
                        JStr("Qacha's Nek"), JStr("Leribe"), JStr("Maseru")}
    /\ b["employment"] \in {JStr("employed"), JStr("unemployed"),
                            JStr("self-employed")}
    /\ b["primary_healthcare_access"] \in {JStr("easy"), JStr("moderate"),
                                           JStr("difficult")}
    /\ b["healthcare_type"] \in {JStr("public"), JStr("private")}

Served(route) == pc = "serving" /\ endpoint = route

\* C1: every successful /predict response carries a cost of at least the
\* floor of 100 LSL (10000 hundredths), whatever the regression returned.
C1_CostAtLeastFloor ==
    (Served("/predict") /\ resp.status = 200)
        => resp.predicted_healthcare_cost >= 100 * 100

\* A negative raw prediction was floored to exactly 100.00.
C1_Witness ==
    /\ Served("/predict")
    /\ resp.status = 200
    /\ raw_prediction < 0
    /\ resp.predicted_healthcare_cost = 100 * 100

\* C2: the estimation step is entered only for a body in which every field
\* meets its declared constraint; any other body is rejected with the
\* validation error and estimation does not run for it.
C2_EstimationOnlyForValid ==
    Served("/predict") =>
        /\ estimated => DeclaredOk(body)
        /\ ~DeclaredOk(body) => (~estimated /\ resp.status = 422)

\* Age 17 sent to a process with the artifact loaded: rejected, no estimation.
C2_Witness ==
    /\ Served("/predict")
    /\ model # None /\ scaler # None /\ feature_names # None
    /\ body["age"] = JNum(17)
    /\ ~estimated
    /\ resp.status = 422

\* C3: with no artifact loaded, a valid /predict request is answered with a
\* successful result labelled as demo/heuristic mode, never with an error.
C3_HeuristicWhenNoArtifact ==
    (Served("/predict") /\ model = None /\ DeclaredOk(body))
        => (resp.status = 200 /\ resp.model_used # "Linear Regression")

\* An artifact whose parts do not fit together, or whose model is no estimator.
Malformed ==
    /\ model # None /\ scaler # None /\ feature_names # None
    /\ \/ Val(model).kind # "LinearRegression"
       \/ Len(Val(scaler).mean) # Len(Val(feature_names))
       \/ Len(Val(model).coef) # Len(Val(feature_names))
       \/ Val(feature_names) = <<>>

\* C4: a fault raised inside the Model Path is surfaced as a 500-class
\* response, never as a 400-class response nor as a successful result.
C4_FaultIs500 ==
    (Served("/predict") /\ estimated /\ Malformed) => resp.status >= 500

\* C5 as stated: a body that does not conform to the schema is answered with
\* status 400, and a missing required field is named in the message.
C5_NonConforming400 ==
    (Served("/predict") /\ ~DeclaredOk(body)) =>
        /\ resp.status = 400
        /\ \A f \in FieldSet :
              body[f] = JAbsent => [loc |-> <<"body", f>>] \in resp.detail

\* C5 amended: a body that does not conform to the schema is answered with
\* status 422, and every missing required field is named in the error detail.
C5_NonConforming422 ==
    (Served("/predict") /\ ~DeclaredOk(body)) =>
        /\ resp.status = 422
        /\ \A f \in FieldSet :
              body[f] = JAbsent => [loc |-> <<"body", f>>] \in resp.detail

\* A body without its region: 422 naming region.
C5_Witness ==
    /\ Served("/predict")
    /\ body["region"] = JAbsent
    /\ resp.status = 422
    /\ [loc |-> <<"body", "region">>] \in resp.detail

\* C6: once serving, no handler changes the artifact, and the same request
\* served again gets the same response.
C6_ArtifactFrozen ==
    [][pc = "serving" =>
          /\ artifact' = artifact
          /\ (endpoint' = endpoint /\ body' = body) => resp' = resp]_vars

\* Requests have been served by a process whose artifact is loaded.
C6_Witness ==
    /\ Served("/model-info")
    /\ resp.status = 200
    /\ feature_names = Some(TrainingFeatures)

\* The value of a column of the aligned row.
AlignedAt(c) == input_aligned.data[1][ColIndex(input_aligned, c)]

\* C7: for each categorical field, the indicator column of the request's
\* value (when the artifact expects it) is 1 and the field's other indicator
\* columns are 0.
C7_OneHot ==
    (Served("/predict") /\ estimated) =>
        \A f \in Range(categorical_columns) :
            \A w \in Range(Literals[f]) :
                (f \o "_" \o w) \in Range(input_aligned.columns) =>
                    AlignedAt(f \o "_" \o w) = IF body[f].s = w THEN 1 ELSE 0

\* C8: the aligned frame has exactly the artifact's feature names, in order;
\* an expected column the encoded input lacks holds 0, a column in both
\* keeps the input's value, and nothing else is kept.
C8_Aligned ==
    (Served("/predict") /\ estimated) =>
        LET fn == Val(feature_names)
            row == input_aligned.data[1]
        IN  /\ input_aligned.columns = fn
            /\ Len(input_aligned.data) = 1
            /\ Len(row) = Len(fn)
            /\ \A j \in 1..Len(fn) :
                  IF fn[j] \in Range(input_encoded.columns)
                  THEN row[j] =
                         input_encoded.data[1][ColIndex(input_encoded, fn[j])]
                  ELSE row[j] = 0

\* Selected features: healthcare_type_public is filled, household_size is
\* dropped, age is kept and moved to the third place.
C8_Witness ==
    /\ Served("/predict")
    /\ estimated
    /\ feature_names = Some(SelectedFeatures)
    /\ "household_size" \in Range(input_encoded.columns)
    /\ "healthcare_type_public" \notin Range(input_encoded.columns)
    /\ input_aligned.data[1] = <<50000, 0, 100>>

\* C9: /health always answers 200 with model_status "loaded" exactly when
\* the model is loaded and features_loaded the length of feature_names (0
\* without an artifact); /model-info answers 500 exactly when no model is
\* loaded.
C9_HealthTruthful ==
    /\ Served("/health") =>
          /\ resp.status = 200
          /\ resp.model_status = IF model # None THEN "loaded" ELSE "not_loaded"
          /\ resp.features_loaded =
                IF feature_names # None THEN Len(Val(feature_names)) ELSE 0
    /\ Served("/model-info") => (resp.status = 500 <=> model = None)

\* /health on a loaded artifact whose feature list is empty.
C9_Witness ==
    /\ Served("/health")
    /\ model # None
    /\ feature_names = Some(<<>>)
    /\ resp.model_status = "loaded"
    /\ resp.features_loaded = 0

\* C10: once serving, model, scaler and feature_names are all loaded or all
\* None, so /health says "loaded" exactly when /predict passes its guard.
C10_AllOrNothing ==
    pc = "serving" =>
        /\ \/ model = None /\ scaler = None /\ feature_names = None
           \/ model # None /\ scaler # None /\ feature_names # None
        /\ Served("/health") =>
              (resp.model_status = "loaded"
                  <=> (model # None /\ scaler # None /\ feature_names # None))
        /\ (Served("/predict") /\ DeclaredOk(body)) =>
              (resp.status = 500 <=> model = None)

\* A process whose load failed answers a valid /predict with 500.
C10_Witness ==
    /\ Served("/predict")
    /\ DeclaredOk(body)
    /\ model = None /\ scaler = None /\ feature_names = None
    /\ resp.status = 500

====
